---- MODULE Spec2Model ----
(***************************************************************************)
(* Model of expect_column_values_polygon_to_be_discrete.py: the metric     *)
(* ColumnValuesDistinctPolygons._pandas (the spec's `evaluate`) and the    *)
(* expectation's _validate.                                                *)
(*                                                                         *)
(* Geometry.  A shapely Polygon is its ring of coordinates, exactly as the *)
(* source writes it; two polygons are equal (==, !=) when their rings are  *)
(* equal coordinate by coordinate.  A geometry (the result of union or     *)
(* intersection) is the set of points of a lattice of step 1/5 that the    *)
(* closed point set contains.  All polygons used are convex, and the       *)
(* lattice is fine enough that every pair of them that shares a point      *)
(* shares a lattice point, and every pair that shares positive area shares *)
(* a lattice point interior to both; union, intersection and is_empty are  *)
(* then exact on everything the metric computes.                           *)
(***************************************************************************)
EXTENDS Integers, Sequences, FiniteSets, Bags, TLC

\* Longest column drawn from the catalogue, and number of _pandas calls.
MaxLen == 2
MaxCalls == 2

----------------------------------------------------------------------------
(* The example data of the source. *)

shapes_intersecting ==
  << << <<0, 0>>, <<2, 0>>, <<2, 2>>, <<0, 2>> >>,
     << <<0, 1>>, <<3, 1>>, <<2, 3>> >>,
     << <<3, 0>>, <<4, 0>>, <<4, 1>>, <<0, 1>> >> >>

shapes_touching ==
  << << <<0, 0>>, <<2, 0>>, <<2, 2>>, <<0, 2>> >>,
     << <<0, 2>>, <<0, 3>>, <<2, 2>> >>,
     << <<2, 0>>, <<4, 0>>, <<4, 2>>, <<2, 2>> >> >>

shapes_distinct ==
  << << <<0, 0>>, <<2, 0>>, <<2, 2>>, <<0, 2>> >>,
     << <<0, 3>>, <<0, 4>>, <<3, 3>> >>,
     << <<4, 0>>, <<6, 0>>, <<6, 4>>, <<4, 4>> >> >>

examples ==
  [ shapes_intersecting |-> shapes_intersecting,
    shapes_touching     |-> shapes_touching,
    shapes_distinct     |-> shapes_distinct ]

basic_positive_test ==
  [ title |-> "basic_positive_test", column |-> "shapes_distinct",
    empty |-> TRUE, success |-> TRUE ]

basic_negative_test ==
  [ title |-> "basic_negative_test", column |-> "shapes_intersecting",
    empty |-> FALSE, success |-> FALSE ]

tests == { basic_positive_test, basic_negative_test }

Range(s) == { s[k] : k \in DOMAIN s }

\* Polygons that columns are drawn from: the square of the examples and the
\* square that touches it along an edge.
Catalogue == { shapes_touching[1], shapes_touching[3] }

AllShapes ==
  Catalogue \cup Range(shapes_intersecting) \cup Range(shapes_touching)
            \cup Range(shapes_distinct)

Columns ==
  UNION { [1..n -> Catalogue] : n \in 0..MaxLen }
    \cup { shapes_intersecting, shapes_touching, shapes_distinct }

----------------------------------------------------------------------------
(* shapely: bounds, ==, unary_union, intersection, is_empty. *)

MinOf(S) == CHOOSE m \in S : \A x \in S : m <= x
MaxOf(S) == CHOOSE m \in S : \A x \in S : m >= x

Xs(shape) == { shape[k][1] : k \in DOMAIN shape }
Ys(shape) == { shape[k][2] : k \in DOMAIN shape }

\* shape.bounds: (minx, miny, maxx, maxy)
Bounds(shape) ==
  << MinOf(Xs(shape)), MinOf(Ys(shape)), MaxOf(Xs(shape)), MaxOf(Ys(shape)) >>

\* The lattice: the points (x/5, y/5) of the rectangle that holds every
\* polygon, each numbered x + LatticeWidth * y.
LatticeWidth == 5 * MaxOf(UNION { Xs(s) : s \in AllShapes }) + 1
LatticeHeight == 5 * MaxOf(UNION { Ys(s) : s \in AllShapes }) + 1
Lattice == 0 .. (LatticeWidth * LatticeHeight - 1)
PointX(w) == w % LatticeWidth
PointY(w) == w \div LatticeWidth

\* Side of lattice point w relative to the ring edge k -> k+1 (sign of the
\* cross product).
Side(shape, k, w) ==
  LET a == shape[k]
      b == shape[(k % Len(shape)) + 1]
  IN  (b[1] - a[1]) * (PointY(w) - 5 * a[2])
        - (b[2] - a[2]) * (PointX(w) - 5 * a[1])

\* w lies in the closed convex polygon.
Covers(shape, w) ==
  \/ \A k \in DOMAIN shape : Side(shape, k, w) >= 0
  \/ \A k \in DOMAIN shape : Side(shape, k, w) <= 0

\* w lies in the interior of the convex polygon.
CoversStrictly(shape, w) ==
  \/ \A k \in DOMAIN shape : Side(shape, k, w) > 0
  \/ \A k \in DOMAIN shape : Side(shape, k, w) < 0

\* The polygon as a geometry, and its interior.
Region == [ s \in AllShapes |-> { w \in Lattice : Covers(s, w) } ]
Interior == [ s \in AllShapes |-> { w \in Lattice : CoversStrictly(s, w) } ]

\* unary_union of a collection of geometries; of nothing, the empty geometry.
unary_union(geoms) == UNION geoms

\* a.intersection(b)
intersection(a, b) == a \cap b

\* g.is_empty: no point at all (a line or a point is not empty).
is_empty(g) == g = {}

----------------------------------------------------------------------------
(* rtree: idx.insert(id, bounds), idx.intersection(bounds). *)

\* Two boxes intersect, touching included.
BoxesIntersect(a, b) ==
  /\ a[1] <= b[3] /\ b[1] <= a[3]
  /\ a[2] <= b[4] /\ b[2] <= a[4]

\* The id an entry is inserted under: idx.insert(pos, shape.bounds)
EntryIdRunning(index, pos) == BagCardinality(index) + pos
EntryId(index, pos) == pos

\* The index after the first loop: one more entry per position of the column.
Inserted(index, shapes) ==
  index (+) SetToBag({ [ id |-> EntryId(index, k - 1), bounds |-> Bounds(shapes[k]) ]
                       : k \in DOMAIN shapes })

\* idx.intersection(box): the entries whose box intersects `box`.
IndexHits(index, box) ==
  { e \in BagToSet(index) : BoxesIntersect(e.bounds, box) }

----------------------------------------------------------------------------
(* ColumnValuesDistinctPolygons._pandas, as a function of the module-level *)
(* names idx and intersections it reads and of its column.                 *)

\* Positions the second loop visits: for shape in shapes
ProcessedFirstOnly(shapes) == IF shapes = << >> THEN {} ELSE {1}
Processed(shapes) == 1..Len(shapes)

\* The entries idx.intersection(shape.bounds) returns for the shape at
\* position i (1-based here, id = i - 1 in the source).
Hits(index, shapes, i) == IndexHits(index, Bounds(shapes[i]))

\* shapes[pos] raises for an id that is no position of this column.
Raises(index, shapes, i) ==
  \E e \in Hits(index, shapes, i) : e.id \notin 0..(Len(shapes) - 1)

\* The first position whose list comprehension raises, 0 when none does.
FailPos(index, shapes) ==
  LET bad == { i \in Processed(shapes) : Raises(index, shapes, i) }
  IN  IF bad = {} THEN 0 ELSE MinOf(bad)

\* Positions whose intersection is appended before the call ends.
Done(index, shapes) ==
  LET fail == FailPos(index, shapes)
  IN  { i \in Processed(shapes) : fail = 0 \/ i < fail }

\* [shapes[pos] for pos in idx.intersection(shape.bounds) if shapes[pos] != shape]
Candidates(index, shapes, i) ==
  { shapes[e.id + 1] :
      e \in { h \in Hits(index, shapes, i) : shapes[h.id + 1] # shapes[i] } }

\* merged_shapes = unary_union([...])
merged_shapes(index, shapes, i) ==
  unary_union({ Region[c] : c \in Candidates(index, shapes, i) })

\* What the second loop appends to intersections, in order.
Appended(index, shapes) ==
  [ i \in 1..Cardinality(Done(index, shapes)) |->
      intersection(Region[shapes[i]], merged_shapes(index, shapes, i)) ]

\* A returned boolean, written as Python prints it.
Returned(b) == IF b THEN "True" ELSE "False"

\* One run of the function body with idx and intersections bound: the
\* index and the list it leaves behind, its outcome (the returned boolean,
\* or KeyError when shapes[pos] fails), and the entries its queries returned.
Call(index, ints, shapes) ==
  LET index1 == Inserted(index, shapes)
      fail == FailPos(index1, shapes)
      ints1 == ints \o Appended(index1, shapes)
      queried == { i \in Processed(shapes) : fail = 0 \/ i <= fail }
  IN  [ idx |-> index1,
        intersections |-> ints1,
        outcome |-> IF fail # 0 THEN "KeyError"
                    ELSE Returned(is_empty(unary_union(Range(ints1)))),
        hits |-> UNION { Hits(index1, shapes, i) : i \in queried } ]

\* The call's outcome.  `isBound` tells whether the names idx and
\* intersections are bound at all; unbound, the first use raises NameError.
Outcome(isBound, index, ints, shapes) ==
  IF isBound THEN Call(index, ints, shapes).outcome ELSE "NameError"

----------------------------------------------------------------------------
VARIABLES
  namesBound,       \* are the names idx and intersections bound in the module
  idx,              \* the index object: a bag of [id, bounds] entries
  intersections,    \* the list the second loop appends to
  calls,            \* number of _pandas calls so far
  column,           \* the column of the last call
  result,           \* its outcome: "True", "False", or the exception's name
  idxIn,            \* idx as the last call found it
  intersectionsIn,  \* intersections as the last call found it
  hits,             \* the index entries the last call's queries returned
  prevColumn,       \* column and outcome of the call before the last
  prevResult,
  validation        \* outcome of the last _validate

vars ==
  << namesBound, idx, intersections, calls, column, result, idxIn, intersectionsIn,
     hits, prevColumn, prevResult, validation >>

\* The file never binds idx or intersections; the function reads them as
\* module globals.  Either they are unbound (every call raises NameError) or
\* the module holds one index and one list, created once and empty.  (When
\* namesBound is FALSE the values of idx and intersections are never read.)
ModuleGlobals == [ idx |-> EmptyBag, intersections |-> << >> ]

Init ==
  /\ namesBound \in BOOLEAN
  /\ idx = ModuleGlobals.idx
  /\ intersections = ModuleGlobals.intersections
  /\ calls = 0
  /\ column = << >>
  /\ result = "none"
  /\ idxIn = EmptyBag
  /\ intersectionsIn = << >>
  /\ hits = {}
  /\ prevColumn = << >>
  /\ prevResult = "none"
  /\ validation = [ test |-> "none", outcome |-> "none" ]

\* One call of _pandas on the column `shapes`.
Evaluate(shapes) ==
  /\ calls < MaxCalls
  /\ calls' = calls + 1
  /\ column' = shapes
  /\ idxIn' = idx
  /\ intersectionsIn' = intersections
  /\ prevColumn' = column
  /\ prevResult' = result
  /\ IF namesBound
       THEN LET call == Call(idx, intersections, shapes)
            IN  /\ idx' = call.idx
                /\ intersections' = call.intersections
                /\ hits' = call.hits
                /\ result' = call.outcome
       ELSE /\ UNCHANGED << idx, intersections >>
            /\ hits' = {}
            /\ result' = "NameError"
  /\ UNCHANGED << namesBound, validation >>

\* _validate(configuration, metrics, ...) for the configuration of one of
\* the example tests and a value of the metric: the body raises whatever it
\* is given.
Validate(test, metric) ==
  /\ validation' = [ test |-> test.title, outcome |-> "NotImplementedError" ]
  /\ UNCHANGED << namesBound, idx, intersections, calls, column, result, idxIn,
                  intersectionsIn, hits, prevColumn, prevResult >>

Next ==
  \/ \E shapes \in Columns : Evaluate(shapes)
  \/ \E test \in tests, metric \in BOOLEAN : Validate(test, metric)

Spec == Init /\ [][Next]_vars

----------------------------------------------------------------------------
(* Vocabulary of the properties. *)

\* The last call returned a boolean.
Returns == result \in { "True", "False" }

\* Two polygons share positive area: a point interior to both.
ShareArea(a, b) == Interior[a] \cap Interior[b] # {}

\* Some two positions of the column hold polygons that share positive area.
Overlapping(shapes) ==
  \E i, j \in DOMAIN shapes : i # j /\ ShareArea(shapes[i], shapes[j])

\* Some two positions of the column hold the same Polygon value.
HasDuplicate(shapes) ==
  \E i, j \in DOMAIN shapes : i # j /\ shapes[i] = shapes[j]

\* The permutations of 1..n, and a column reordered by one.
Perms(n) == { f \in [1..n -> 1..n] : \A i, j \in 1..n : f[i] = f[j] => i = j }
Permute(shapes, f) == [ k \in 1..Len(shapes) |-> shapes[f[k]] ]

\* What a call on `shapes` gives when nothing was called before it.
FirstCallOutcome(shapes) ==
  Outcome(namesBound, ModuleGlobals.idx, ModuleGlobals.intersections, shapes)

\* The index entries of a column alone: one per position, with its box.
OwnEntries(shapes) ==
  SetToBag({ [ id |-> k - 1, bounds |-> Bounds(shapes[k]) ] : k \in DOMAIN shapes })

----------------------------------------------------------------------------
(* The claims. *)

\* C1: what evaluate returns is true when no two polygons at distinct
\* positions of the column share positive area, and false when some two do.
C1_TrueIffNoSharedArea ==
  (calls > 0 /\ Returns) => result = Returned(~Overlapping(column))

\* C2: on a column whose polygons pairwise share no area (they at most
\* touch), what evaluate returns is true.
C2_TouchingOnlyIsTrue ==
  (calls > 0 /\ Returns /\ ~Overlapping(column)) => result = "True"

\* C3: on a column holding the same polygon value at two positions, the pair
\* is detected: what evaluate returns is false.
C3_DuplicatesAreOverlap ==
  (calls > 0 /\ Returns /\ HasDuplicate(column)) => result = "False"

\* C4: the outcome of a call depends only on its column: it is the outcome
\* the same column gives as the very first call.
C4_NoStateAcrossCalls ==
  calls > 0 => result = FirstCallOutcome(column)

\* C5: idempotence.  A call on the same column as the call just before it
\* has the same outcome.
C5_Idempotent ==
  (calls >= 2 /\ prevColumn = column) => result = prevResult

\* Two calls in succession on one column of two or more polygons, both
\* returning a boolean.
C5_Witness ==
  /\ calls >= 2
  /\ prevColumn = column
  /\ Len(column) >= 2
  /\ Returns
  /\ prevResult \in { "True", "False" }

\* C6: order-independence.  From the state the last call started in, the
\* call on any permutation of its column has the outcome the call had.
C6_OrderIndependent ==
  calls > 0 =>
    \A f \in Perms(Len(column)) :
      Outcome(namesBound, idxIn, intersectionsIn, Permute(column, f)) = result

\* A call that returned a boolean on a column that some permutation changes,
\* started with entries of an earlier call in the index.
C6_Witness ==
  /\ calls > 0
  /\ Returns
  /\ idxIn # EmptyBag
  /\ \E f \in Perms(Len(column)) : Permute(column, f) # column

\* C7: on a column of zero or one polygon, what evaluate returns is true.
C7_AtMostOneIsTrue ==
  (calls > 0 /\ Returns /\ Len(column) <= 1) => result = "True"

\* C8: validating an example test ends with a success flag, the one the
\* test expects, not with an error.
C8_ValidateReportsSuccess ==
  \A test \in tests :
    validation.test = test.title => validation.outcome = Returned(test.success)

\* C9: when the call queries the index, the index holds exactly one entry
\* per position of the call's column, with that polygon's bounding box.
\* (Both loops are sequential: the index at every query of a call is the
\* index the call leaves behind.)
C9_IndexIsTheColumn ==
  (calls > 0 /\ namesBound /\ column # << >>) => idx = OwnEntries(column)

\* C10: every entry a query returns has an id that is a position of the
\* call's column, and the box of the polygon at that position.
C10_HitsAreValidPositions ==
  \A e \in hits :
    /\ e.id \in 0..(Len(column) - 1)
    /\ e.bounds = Bounds(column[e.id + 1])

====
